---- MODULE Spec2Model ----
(***************************************************************************)
(* A model of the input-action library: the key translator                 *)
(* (src/src/InputAction.ts), the static pressed-state pool and its two     *)
(* window listeners, the per-instance action map with its accessors, and   *)
(* the two queries isPressed / justPressed (src/src/Input.ts).             *)
(*                                                                         *)
(* Key names are sequences of one-character strings, so that toLowerCase   *)
(* and the regular expression of navigatorKeyToThis are computed character *)
(* by character.  Objects that JavaScript shares by reference (the action  *)
(* map object and the atom arrays it holds) live in two heaps; an          *)
(* operation that allocates writes at addresses of its own allocation      *)
(* site, and what no root references any more is collected.                *)
(***************************************************************************)
EXTENDS Integers, Sequences, FiniteSets, TLC

VARIABLES
  records,    \* heap of map objects: address -> [action name -> array address]
  arrays,     \* heap of atom arrays: address -> sequence of atoms
  mMap,       \* Input#mMap: instance -> address of its map object
  pool,       \* Input.mPressedStatePoolKeys (static): key name -> PressedState
  listeners,  \* EventTarget listener lists: instance -> event type -> listeners
  now,        \* Date.now(), in milliseconds
  held,       \* the map object the calling code holds a reference to, or NoRef
  last        \* the last operation and its outcome

vars == <<records, arrays, mMap, pool, listeners, now, held, last>>

----------------------------------------------------------------------------
(* Bounds of the model.                                                    *)

\* The clock stops at MaxTime milliseconds.
MaxTime == 20

\* The calling code changes an object it holds at most MaxMutations times
\* before it lets go of it.
MaxMutations == 2

\* The amounts of milliseconds by which the clock advances in one step.
TickSteps == {5, 15}

----------------------------------------------------------------------------
(* Strings as character sequences.                                         *)

UpperCase ==
  <<"A","B","C","D","E","F","G","H","I","J","K","L","M",
    "N","O","P","Q","R","S","T","U","V","W","X","Y","Z">>

LowerCase ==
  <<"a","b","c","d","e","f","g","h","i","j","k","l","m",
    "n","o","p","q","r","s","t","u","v","w","x","y","z">>

Digits == {"0","1","2","3","4","5","6","7","8","9"}

\* The lower-case letter of each upper-case letter.
LowerOf ==
  [c \in {UpperCase[i] : i \in 1..26} |->
     LowerCase[CHOOSE i \in 1..26 : UpperCase[i] = c]]

\* One character of String.prototype.toLowerCase.
LowerChar(c) == IF c \in DOMAIN LowerOf THEN LowerOf[c] ELSE c

\* name.toLowerCase()
ToLowerCase(s) == [i \in 1..Len(s) |-> LowerChar(s[i])]

\* The value a lookup that finds nothing yields.
undefined == <<"undefined">>

\* const mapNavigatorKeyToThis = new Map<string, InputActionKeyName>([...])
mapNavigatorKeyToThis ==
     (<<"a","r","r","o","w","l","e","f","t">> :> <<"l","e","f","t","A","r","r","o","w">>)
  @@ (<<"a","r","r","o","w","r","i","g","h","t">> :> <<"r","i","g","h","t","A","r","r","o","w">>)
  @@ (<<"a","r","r","o","w","u","p">> :> <<"u","p","A","r","r","o","w">>)
  @@ (<<"a","r","r","o","w","d","o","w","n">> :> <<"d","o","w","n","A","r","r","o","w">>)
  @@ (<<" ">> :> <<"s","p","a","c","e","b","a","r">>)
  @@ (<<"e","n","t","e","r">> :> <<"e","n","t","e","r">>)
  @@ (<<"b","a","c","k","s","p","a","c","e">> :> <<"b","a","c","k","s","p","a","c","e">>)
  @@ (<<"s","u","b","t","r","a","c","t">> :> <<"m","i","n","u","s">>)
  @@ (<<"a","d","d">> :> <<"p","l","u","s">>)
  @@ (<<"t","a","b">> :> <<"t","a","b">>)

\* /a-z0-9|f\d\d?/.test(name): the pattern is unanchored and has no character
\* class, so it matches when the literal text a-z0-9 occurs in name, or an f
\* directly followed by a digit does (the optional second digit adds nothing
\* to a test).
RegexTest(name) ==
  \E i \in 1..Len(name) :
    \/ /\ i + 5 <= Len(name)
       /\ SubSeq(name, i, i + 5) = <<"a","-","z","0","-","9">>
    \/ /\ name[i] = "f"
       /\ i + 1 <= Len(name)
       /\ name[i + 1] \in Digits

\* export function navigatorKeyToThis(name: string)
navigatorKeyToThis(name) ==
  LET lower == ToLowerCase(name) IN
  IF RegexTest(lower) THEN lower
  ELSE IF lower \in DOMAIN mapNavigatorKeyToThis THEN mapNavigatorKeyToThis[lower]
  ELSE undefined

----------------------------------------------------------------------------
(* Key names the model uses.                                               *)

Key_a == <<"a">>
Key_f3 == <<"f","3">>
Key_escape == <<"e","s","c","a","p","e">>
Key_enter == <<"e","n","t","e","r">>
Key_leftArrow == <<"l","e","f","t","A","r","r","o","w">>
Key_rightArrow == <<"r","i","g","h","t","A","r","r","o","w">>
Key_upArrow == <<"u","p","A","r","r","o","w">>
Key_downArrow == <<"d","o","w","n","A","r","r","o","w">>

\* KeyboardEvent.key values.
Raw_a == <<"a">>
Raw_F3 == <<"F","3">>
Raw_ArrowLeft == <<"A","r","r","o","w","L","e","f","t">>
Raw_Escape == <<"E","s","c","a","p","e">>
Raw_unknownkey == <<"u","n","k","n","o","w","n","k","e","y">>
Raw_F13 == <<"F","1","3">>
Raw_Soft1 == <<"S","o","f","t","1">>

\* evt.ctrlKey, evt.shiftKey, evt.altKey
Mod(c, s, a) == [control |-> c, shift |-> s, alt |-> a]

NoMods == Mod(FALSE, FALSE, FALSE)

AllMods == {Mod(c, s, a) : c \in BOOLEAN, s \in BOOLEAN, a \in BOOLEAN}

----------------------------------------------------------------------------
(* The action map: objects and references.                                 *)

\* The instances of Input: the singleton Input.input and one constructed
\* with new Input().
Insts == {"input", "other"}

\* export const input = Input.input
input == "input"

\* An address is <<owner, allocation site, slot>>; the slot of a map object
\* is MapSlot, the slot of an atom array is the action name it was stored
\* under when it was allocated.
MapSlot == "#"

Address(region, slot) == <<region[1], region[2], slot>>

NoRef == <<"none", "none", "none">>

\* The object literal of an action map, allocated in a region.
AllocRecords(recs, region, map) ==
  (Address(region, MapSlot) :> [n \in DOMAIN map |-> Address(region, n)]) @@ recs

AllocArrays(arrs, region, map) ==
  [a \in {Address(region, n) : n \in DOMAIN map} |-> map[a[3]]] @@ arrs

\* private static builtin(): a new object with new arrays on every call.
builtin ==
  [escape        |-> <<[key |-> Key_escape]>>,
   navigateLeft  |-> <<[key |-> Key_leftArrow]>>,
   navigateRight |-> <<[key |-> Key_rightArrow]>>,
   navigateUp    |-> <<[key |-> Key_upArrow]>>,
   navigateDown  |-> <<[key |-> Key_downArrow]>>]

\* A copy of the map object alone, which holds the arrays of the original.
structuredClone_Shallow(recs, arrs, a, region) ==
  [ref     |-> Address(region, MapSlot),
   records |-> (Address(region, MapSlot) :> recs[a]) @@ recs,
   arrays  |-> arrs]

\* structuredClone(value): a deep copy, here of the map object at address a
\* into a region; the copy shares nothing with the original.
structuredClone(recs, arrs, a, region) ==
  [ref     |-> Address(region, MapSlot),
   records |-> (Address(region, MapSlot) :>
                  [n \in DOMAIN recs[a] |-> Address(region, n)]) @@ recs,
   arrays  |-> [x \in {Address(region, n) : n \in DOMAIN recs[a]} |->
                  arrs[recs[a][x[3]]]] @@ arrs]

\* Spread with the properties of a kept where both have one.
Spread_FirstWins(a, b) ==
  [n \in DOMAIN a \cup DOMAIN b |-> IF n \in DOMAIN a THEN a[n] ELSE b[n]]

\* { ...a, ...b }: the own properties of a, then those of b over them.
Spread(a, b) ==
  [n \in DOMAIN a \cup DOMAIN b |-> IF n \in DOMAIN b THEN b[n] ELSE a[n]]

\* What the map object at address a holds, arrays read through.
Deref(recs, arrs, a) == [n \in DOMAIN recs[a] |-> arrs[recs[a][n]]]

\* Objects no root references are gone.
Collect(recs, arrs, roots) ==
  LET liveRecs == roots \cap DOMAIN recs
      liveArrs == UNION {{recs[a][n] : n \in DOMAIN recs[a]} : a \in liveRecs}
  IN [records |-> [a \in liveRecs |-> recs[a]],
      arrays  |-> [a \in liveArrs \cap DOMAIN arrs |-> arrs[a]]]

\* private mMap = { ...Input.builtin() }
NewInput(recs, arrs, i) ==
  LET b  == <<i, "builtin">>
      r1 == AllocRecords(recs, b, builtin)
      a1 == AllocArrays(arrs, b, builtin)
      m  == Spread([n \in {} |-> NoRef], r1[Address(b, MapSlot)])
  IN [ref     |-> Address(<<i, "map">>, MapSlot),
      records |-> (Address(<<i, "map">>, MapSlot) :> m) @@ r1,
      arrays  |-> a1]

\* public getActions()
getActions(recs, arrs, ref) ==
  structuredClone(recs, arrs, ref, <<"caller", "ret">>)

\* setActions without the defaults beneath the candidate.
setActions_NoBuiltin(recs, arrs, i, map) ==
  LET c == structuredClone(recs, arrs, map, <<i, "clone">>)
  IN [ref     |-> Address(<<i, "map">>, MapSlot),
      records |-> (Address(<<i, "map">>, MapSlot) :> c.records[c.ref]) @@ c.records,
      arrays  |-> c.arrays]

\* public setActions(map): the assignment to this.mMap
setActions(recs, arrs, i, map) ==
  LET b  == <<i, "builtin">>
      r1 == AllocRecords(recs, b, builtin)
      a1 == AllocArrays(arrs, b, builtin)
      c  == structuredClone(r1, a1, map, <<i, "clone">>)
      m  == Spread(r1[Address(b, MapSlot)], c.records[c.ref])
  IN [ref     |-> Address(<<i, "map">>, MapSlot),
      records |-> (Address(<<i, "map">>, MapSlot) :> m) @@ c.records,
      arrays  |-> c.arrays]

----------------------------------------------------------------------------
(* The pressed-state pool and the window listeners.                        *)

\* Input.mPressedStatePoolKeys.get(k) !== undefined
PoolHas(p, k) == k \in DOMAIN p

\* The state the listeners create for a key that has none.
FreshState ==
  [pressed |-> FALSE, pressedTimestamp |-> 0,
   control |-> FALSE, shift |-> FALSE, alt |-> FALSE]

\* The event types of InputEventMap.
EventTypes == {"inputPressed", "inputReleased", "actionsUpdated"}

\* The listeners application code registers: "query" reads isPressed and
\* justPressed as the README's handler does, "cancel" calls
\* event.preventDefault().
Handlers == {"query", "cancel"}

\* EventTarget.dispatchEvent(new Event(type, { cancelable })): the listeners
\* of the type run at once, each seeing the state as it is at the dispatch.
dispatchEvent(ls, i, type, cancelable, acts, p, t) ==
  [type             |-> type,
   target           |-> i,
   to               |-> ls[i][type],
   defaultPrevented |-> cancelable /\ "cancel" \in ls[i][type],
   sawActions       |-> acts,
   sawPool          |-> p,
   sawNow           |-> t]

\* The keydown listener's update writing the modifiers of the event to every
\* entry that is held, the modifier keys being the same for all keys.
PressState_ModifiersToAll(p, keyName, m, t) ==
  LET state == IF ~PoolHas(p, keyName) THEN FreshState ELSE p[keyName]
      q     == (keyName :> [state EXCEPT !.pressed = TRUE,
                                         !.pressedTimestamp = t]) @@ p
  IN [k \in DOMAIN q |->
        IF q[k].pressed
        THEN [q[k] EXCEPT !.control = m.control, !.shift = m.shift,
                          !.alt = m.alt]
        ELSE q[k]]

\* The mutation of the keydown listener.
PressState(p, keyName, m, t) ==
  LET state == IF ~PoolHas(p, keyName) THEN FreshState ELSE p[keyName]
  IN (keyName :> [state EXCEPT !.pressed = TRUE,
                               !.pressedTimestamp = t,
                               !.control = m.control,
                               !.shift = m.shift,
                               !.alt = m.alt]) @@ p

\* The keyup listener's update also resetting the timestamp of the entry.
ReleaseState_ClearsStamp(p, keyName) ==
  (keyName :> FreshState) @@ p

\* The mutation of the keyup listener.
ReleaseState(p, keyName) ==
  LET state == IF ~PoolHas(p, keyName) THEN FreshState ELSE p[keyName]
  IN (keyName :> [state EXCEPT !.pressed = FALSE,
                               !.control = FALSE,
                               !.shift = FALSE,
                               !.alt = FALSE]) @@ p

\* The keydown listener dispatching whether or not the key is recognized.
keydownListener_DispatchAlways(p, ls, acts, raw, m, t) ==
  LET keyName == navigatorKeyToThis(raw)
      p1      == IF keyName # undefined THEN PressState(p, keyName, m, t) ELSE p
      evt1    == dispatchEvent(ls, input, "inputPressed", TRUE, acts, p1, t)
  IN [keyName |-> keyName, pool |-> p1, notes |-> <<evt1>>,
      prevented |-> evt1.defaultPrevented]

\* The keydown listener dispatching before it mutates the pressed state.
keydownListener_DispatchFirst(p, ls, acts, raw, m, t) ==
  LET keyName == navigatorKeyToThis(raw) IN
  IF keyName # undefined
  THEN LET evt1 == dispatchEvent(ls, input, "inputPressed", TRUE, acts, p, t)
           p1   == PressState(p, keyName, m, t)
       IN [keyName |-> keyName, pool |-> p1, notes |-> <<evt1>>,
           prevented |-> evt1.defaultPrevented]
  ELSE [keyName |-> keyName, pool |-> p, notes |-> <<>>, prevented |-> FALSE]

\* window.addEventListener("keydown", (evt) => { ... }); acts is the action
\* map of the singleton, on which the event is dispatched.
keydownListener(p, ls, acts, raw, m, t) ==
  LET keyName == navigatorKeyToThis(raw) IN
  IF keyName # undefined
  THEN LET p1   == PressState(p, keyName, m, t)
           evt1 == dispatchEvent(ls, input, "inputPressed", TRUE, acts, p1, t)
       IN [keyName |-> keyName, pool |-> p1, notes |-> <<evt1>>,
           prevented |-> evt1.defaultPrevented]
  ELSE [keyName |-> keyName, pool |-> p, notes |-> <<>>, prevented |-> FALSE]

\* The keyup listener dispatching an event that cannot be cancelled.
keyupListener_NotCancelable(p, ls, acts, raw, m, t) ==
  LET keyName == navigatorKeyToThis(raw) IN
  IF keyName # undefined
  THEN LET p1   == ReleaseState(p, keyName)
           evt1 == dispatchEvent(ls, input, "inputReleased", FALSE, acts, p1, t)
       IN [keyName |-> keyName, pool |-> p1, notes |-> <<evt1>>,
           prevented |-> evt1.defaultPrevented]
  ELSE [keyName |-> keyName, pool |-> p, notes |-> <<>>, prevented |-> FALSE]

\* window.addEventListener("keyup", (evt) => { ... })
keyupListener(p, ls, acts, raw, m, t) ==
  LET keyName == navigatorKeyToThis(raw) IN
  IF keyName # undefined
  THEN LET p1   == ReleaseState(p, keyName)
           evt1 == dispatchEvent(ls, input, "inputReleased", TRUE, acts, p1, t)
       IN [keyName |-> keyName, pool |-> p1, notes |-> <<evt1>>,
           prevented |-> evt1.defaultPrevented]
  ELSE [keyName |-> keyName, pool |-> p, notes |-> <<>>, prevented |-> FALSE]

----------------------------------------------------------------------------
(* The queries.                                                            *)

\* item.control, item.shift, item.alt: an absent property reads as undefined,
\* which the conditional takes as false.
Truthy(item, flag) == flag \in DOMAIN item /\ item[flag]

\* ChordPressed with an absent modifier flag read as "either way".
ChordPressed_AbsentIsDontCare(item, p) ==
  /\ PoolHas(p, item.key)
  /\ LET pressedState == p[item.key] IN
     /\ pressedState.pressed
     /\ (Truthy(item, "control") => pressedState.control)
     /\ (Truthy(item, "shift") => pressedState.shift)
     /\ (Truthy(item, "alt") => pressedState.alt)

\* const pressed = pressedState !== undefined && pressedState.pressed && ...
ChordPressed(item, p) ==
  /\ PoolHas(p, item.key)
  /\ LET pressedState == p[item.key] IN
     /\ pressedState.pressed
     /\ (IF Truthy(item, "control") THEN pressedState.control
         ELSE ~pressedState.control)
     /\ (IF Truthy(item, "shift") THEN pressedState.shift
         ELSE ~pressedState.shift)
     /\ (IF Truthy(item, "alt") THEN pressedState.alt ELSE ~pressedState.alt)

\* pressedState.pressedTimestamp > Date.now() - 15
Recent(pressedState, t) == pressedState.pressedTimestamp > t - 15

RECURSIVE IsPressedLoop(_, _, _)
\* for (const item of action) { ... return true ... } return false, from idx.
IsPressedLoop(action, idx, p) ==
  IF idx > Len(action) THEN FALSE
  ELSE IF "key" \in DOMAIN action[idx] /\ ChordPressed(action[idx], p) THEN TRUE
  ELSE IsPressedLoop(action, idx + 1, p)

\* The loop of justPressed looking at the timestamp of a chord's key alone.
JustPressedLoop_IgnoresPressed(action, idx, p, t) ==
  \E j \in idx..Len(action) :
    /\ "key" \in DOMAIN action[j]
    /\ PoolHas(p, action[j].key)
    /\ Recent(p[action[j].key], t)

RECURSIVE JustPressedLoop(_, _, _, _)
JustPressedLoop(action, idx, p, t) ==
  IF idx > Len(action) THEN FALSE
  ELSE IF /\ "key" \in DOMAIN action[idx]
          /\ ChordPressed(action[idx], p)
          /\ Recent(p[action[idx].key], t)
       THEN TRUE
  ELSE JustPressedLoop(action, idx + 1, p, t)

\* isPressed taking an unknown name for an action without chords.
isPressed_UnknownIsFalse(acts, p, name) ==
  IF name \notin DOMAIN acts THEN [threw |-> FALSE, value |-> FALSE]
  ELSE [threw |-> FALSE, value |-> IsPressedLoop(acts[name], 1, p)]

\* public isPressed(name): the assertion fails when this.mMap[name] is
\* undefined.
isPressed(acts, p, name) ==
  IF name \notin DOMAIN acts THEN [threw |-> TRUE, value |-> FALSE]
  ELSE [threw |-> FALSE, value |-> IsPressedLoop(acts[name], 1, p)]

\* public justPressed(name)
justPressed(acts, p, name, t) ==
  IF name \notin DOMAIN acts THEN [threw |-> TRUE, value |-> FALSE]
  ELSE [threw |-> FALSE, value |-> JustPressedLoop(acts[name], 1, p, t)]

----------------------------------------------------------------------------
(* Inputs.                                                                 *)

\* Action maps application code passes to setActions.
Cand_empty == [n \in {} |-> <<>>]

Cand_escape == [escape |-> <<[key |-> Key_enter]>>]

Cand_x == [x |-> <<[key |-> Key_a]>>]

Cand_move ==
  [moveLeft |-> <<[key |-> Key_a], [key |-> Key_leftArrow]>>,
   fire     |-> <<[key |-> Key_f3, control |-> TRUE]>>]

Cand_game ==
  [x            |-> <<[key |-> Key_a]>>,
   fire         |-> <<[key |-> Key_f3, control |-> TRUE],
                      [key |-> Key_leftArrow, control |-> TRUE, shift |-> TRUE]>>,
   combo        |-> <<[key |-> Key_f3, control |-> TRUE, shift |-> TRUE,
                       alt |-> TRUE]>>,
   idle         |-> <<>>,
   navigateLeft |-> <<[key |-> Key_f3, control |-> FALSE]>>]

----------------------------------------------------------------------------
(* The state machine.                                                      *)

\* this.mMap of instance i, read through.
Actions(i) == Deref(records, arrays, mMap[i])

Blank ==
  [op |-> "init", inst |-> input, name |-> "", raw |-> <<>>,
   keyName |-> undefined, mods |-> NoMods, at |-> 0,
   threw |-> FALSE, value |-> FALSE, prevented |-> FALSE, notes |-> <<>>,
   count |-> 0]

CandRegion == <<"caller", "cand">>

Init ==
  LET n1 == NewInput(<<>>, <<>>, "input")
      n2 == NewInput(n1.records, n1.arrays, "other")
      m  == [i \in Insts |-> IF i = "input" THEN n1.ref ELSE n2.ref]
      h  == Collect(n2.records, n2.arrays, {m[i] : i \in Insts})
  IN /\ records = h.records
     /\ arrays = h.arrays
     /\ mMap = m
     /\ pool = <<>>
     /\ listeners = [i \in Insts |-> [t \in EventTypes |-> {}]]
     /\ now = 0
     /\ held = NoRef
     /\ last = Blank

\* The heaps after an operation that leaves the maps m and the caller's
\* reference h as roots.
Keep(recs, arrs, m, h) ==
  LET c == Collect(recs, arrs, {m[i] : i \in Insts} \cup {h})
  IN /\ records' = c.records
     /\ arrays' = c.arrays

\* The calling code's reference goes out of scope.
Release ==
  /\ held' = NoRef
  /\ IF held = NoRef THEN UNCHANGED <<records, arrays>>
     ELSE Keep(records, arrays, mMap, NoRef)

\* The platform delivers a keydown event.
KeyDown(raw, m) ==
  LET h == keydownListener(pool, listeners, Actions(input), raw, m, now) IN
  /\ pool' = h.pool
  /\ last' = [Blank EXCEPT !.op = "keydown", !.raw = raw, !.mods = m,
                           !.keyName = h.keyName, !.at = now,
                           !.prevented = h.prevented, !.notes = h.notes]
  /\ Release
  /\ UNCHANGED <<mMap, listeners, now>>

\* The platform delivers a keyup event.
KeyUp(raw, m) ==
  LET h == keyupListener(pool, listeners, Actions(input), raw, m, now) IN
  /\ pool' = h.pool
  /\ last' = [Blank EXCEPT !.op = "keyup", !.raw = raw, !.mods = m,
                           !.keyName = h.keyName, !.at = now,
                           !.prevented = h.prevented, !.notes = h.notes]
  /\ Release
  /\ UNCHANGED <<mMap, listeners, now>>

\* setActions dispatching actionsUpdated on the singleton, as the window
\* listeners dispatch their events.
SetActions_NotifiesSingleton(i, c) ==
  LET recs0 == AllocRecords(records, CandRegion, c)
      arrs0 == AllocArrays(arrays, CandRegion, c)
      cand  == Address(CandRegion, MapSlot)
      s     == setActions(recs0, arrs0, i, cand)
      m     == [mMap EXCEPT ![i] = s.ref]
      evt   == dispatchEvent(listeners, input, "actionsUpdated", FALSE,
                             Deref(s.records, s.arrays, s.ref), pool, now)
  IN /\ mMap' = m
     /\ held' = cand
     /\ Keep(s.records, s.arrays, m, cand)
     /\ last' = [Blank EXCEPT !.op = "setActions", !.inst = i, !.at = now,
                              !.notes = <<evt>>]
     /\ UNCHANGED <<pool, listeners, now>>

\* setActions dispatching actionsUpdated before it assigns this.mMap.
SetActions_DispatchFirst(i, c) ==
  LET recs0 == AllocRecords(records, CandRegion, c)
      arrs0 == AllocArrays(arrays, CandRegion, c)
      cand  == Address(CandRegion, MapSlot)
      evt   == dispatchEvent(listeners, i, "actionsUpdated", FALSE,
                             Actions(i), pool, now)
      s     == setActions(recs0, arrs0, i, cand)
      m     == [mMap EXCEPT ![i] = s.ref]
  IN /\ mMap' = m
     /\ held' = cand
     /\ Keep(s.records, s.arrays, m, cand)
     /\ last' = [Blank EXCEPT !.op = "setActions", !.inst = i, !.at = now,
                              !.notes = <<evt>>]
     /\ UNCHANGED <<pool, listeners, now>>

\* Application code builds the map c and calls i.setActions(c); it keeps its
\* reference to c.
SetActions(i, c) ==
  LET recs0 == AllocRecords(records, CandRegion, c)
      arrs0 == AllocArrays(arrays, CandRegion, c)
      cand  == Address(CandRegion, MapSlot)
      s     == setActions(recs0, arrs0, i, cand)
      m     == [mMap EXCEPT ![i] = s.ref]
      evt   == dispatchEvent(listeners, i, "actionsUpdated", FALSE,
                             Deref(s.records, s.arrays, s.ref), pool, now)
  IN /\ mMap' = m
     /\ held' = cand
     /\ Keep(s.records, s.arrays, m, cand)
     /\ last' = [Blank EXCEPT !.op = "setActions", !.inst = i, !.at = now,
                              !.notes = <<evt>>]
     /\ UNCHANGED <<pool, listeners, now>>

\* Application code calls i.getActions() and keeps the value returned.
GetActions(i) ==
  LET g == getActions(records, arrays, mMap[i]) IN
  /\ held' = g.ref
  /\ Keep(g.records, g.arrays, mMap, g.ref)
  /\ last' = [Blank EXCEPT !.op = "getActions", !.inst = i, !.at = now]
  /\ UNCHANGED <<mMap, pool, listeners, now>>

\* isPressed creating, as the listeners do, an entry for each key it looks
\* up and does not find.
IsPressedCall_CreatesEntries(i, name) ==
  LET r    == isPressed(Actions(i), pool, name)
      keys == IF r.threw THEN {}
              ELSE {Actions(i)[name][idx].key : idx \in 1..Len(Actions(i)[name])}
  IN /\ last' = [Blank EXCEPT !.op = "isPressed", !.inst = i, !.name = name,
                              !.at = now, !.threw = r.threw, !.value = r.value]
     /\ pool' = [k \in DOMAIN pool \cup keys |->
                   IF k \in DOMAIN pool THEN pool[k] ELSE FreshState]
     /\ Release
     /\ UNCHANGED <<mMap, listeners, now>>

\* Application code calls i.isPressed(name).
IsPressedCall(i, name) ==
  LET r == isPressed(Actions(i), pool, name) IN
  /\ last' = [Blank EXCEPT !.op = "isPressed", !.inst = i, !.name = name,
                           !.at = now, !.threw = r.threw, !.value = r.value]
  /\ Release
  /\ UNCHANGED <<mMap, pool, listeners, now>>

\* Application code calls i.justPressed(name).
JustPressedCall(i, name) ==
  LET r == justPressed(Actions(i), pool, name, now) IN
  /\ last' = [Blank EXCEPT !.op = "justPressed", !.inst = i, !.name = name,
                           !.at = now, !.threw = r.threw, !.value = r.value]
  /\ Release
  /\ UNCHANGED <<mMap, pool, listeners, now>>

\* Application code changes the map object it holds: it deletes the
\* property n, assigns a new empty array to it, empties the array in place,
\* or sets the control flag of the array's first atom.
CallerMutate(kind, n) ==
  /\ held # NoRef
  /\ n \in DOMAIN records[held]
  /\ (IF last.op = "mutate" THEN last.count ELSE 0) < MaxMutations
  /\ LET arr == records[held][n]
         new == Address(<<"caller", "new">>, n)
         recs1 ==
           CASE kind = "delete" ->
                  [records EXCEPT ![held] =
                     [k \in DOMAIN records[held] \ {n} |-> records[held][k]]]
             [] kind = "assign" -> [records EXCEPT ![held][n] = new]
             [] OTHER -> records
         arrs1 ==
           CASE kind = "assign" -> (new :> <<>>) @@ arrays
             [] kind = "clear" -> [arrays EXCEPT ![arr] = <<>>]
             [] kind = "flag" /\ Len(arrays[arr]) > 0 ->
                  [arrays EXCEPT ![arr][1] = ("control" :> TRUE) @@ arrays[arr][1]]
             [] OTHER -> arrays
     IN Keep(recs1, arrs1, mMap, held)
  /\ last' = [Blank EXCEPT !.op = "mutate", !.name = n, !.at = now,
                           !.count = IF last.op = "mutate" THEN last.count + 1
                                     ELSE 1]
  /\ UNCHANGED <<mMap, pool, listeners, now, held>>

\* Application code calls i.on(type, h).
On(i, type, h) ==
  /\ listeners' = [listeners EXCEPT ![i][type] = @ \cup {h}]
  /\ last' = [Blank EXCEPT !.op = "on", !.inst = i, !.name = type, !.at = now]
  /\ Release
  /\ UNCHANGED <<mMap, pool, now>>

\* Application code calls i.off(type, h).
Off(i, type, h) ==
  /\ listeners' = [listeners EXCEPT ![i][type] = @ \ {h}]
  /\ last' = [Blank EXCEPT !.op = "off", !.inst = i, !.name = type, !.at = now]
  /\ Release
  /\ UNCHANGED <<mMap, pool, now>>

\* Time passes.
Tick(d) ==
  /\ now + d <= MaxTime
  /\ now' = now + d
  /\ UNCHANGED <<records, arrays, mMap, pool, listeners, held, last>>

\* Modifier combinations in which each of the three flags tells two
\* combinations apart.
Mods4 ==
  {NoMods, Mod(TRUE, FALSE, FALSE), Mod(TRUE, TRUE, FALSE), Mod(TRUE, TRUE, TRUE)}

\* Key events and queries on the singleton, whose map is the defaults or the
\* defaults under Cand_game; the clock passes the justPressed window in one
\* step.
Next ==
  \/ \E raw \in {Raw_a, Raw_F3, Raw_ArrowLeft}, m \in Mods4 : KeyDown(raw, m)
  \/ \E raw \in {Raw_a, Raw_F3, Raw_ArrowLeft}, m \in Mods4 : KeyUp(raw, m)
  \/ SetActions(input, Cand_game)
  \/ GetActions(input)
  \/ \E name \in {"navigateLeft", "x", "fire", "combo", "idle", "doesNotExist"} :
       IsPressedCall(input, name)
  \/ \E name \in {"x", "fire", "doesNotExist"} : JustPressedCall(input, name)
  \/ Tick(15)

Spec == Init /\ [][Next]_vars

\* Key events of "a" and F3 and queries on the singleton, the clock
\* advancing in steps that fall inside and outside the justPressed window.
NextTime ==
  \/ \E raw \in {Raw_a, Raw_F3}, m \in {NoMods, Mod(TRUE, FALSE, FALSE)} :
       KeyDown(raw, m)
  \/ \E raw \in {Raw_a, Raw_F3} : KeyUp(raw, NoMods)
  \/ SetActions(input, Cand_game)
  \/ \E name \in {"x", "navigateLeft", "fire"} : IsPressedCall(input, name)
  \/ \E name \in {"x", "navigateLeft", "fire"} : JustPressedCall(input, name)
  \/ \E d \in TickSteps : Tick(d)

SpecTime == Init /\ [][NextTime]_vars

\* Replacements of the map of either instance by each kind of candidate,
\* reads of it, and queries of names that come and go, around one key.
NextMaps ==
  \/ \E i \in Insts, c \in {Cand_empty, Cand_escape, Cand_x, Cand_move} :
       SetActions(i, c)
  \/ \E i \in Insts : GetActions(i)
  \/ \E i \in Insts, name \in {"escape", "x", "moveLeft", "doesNotExist"} :
       IsPressedCall(i, name)
  \/ \E i \in Insts, name \in {"escape", "x", "moveLeft", "doesNotExist"} :
       JustPressedCall(i, name)
  \/ KeyDown(Raw_ArrowLeft, NoMods)
  \/ KeyUp(Raw_ArrowLeft, NoMods)

SpecMaps == Init /\ [][NextMaps]_vars

\* Application code changing the candidate it passed to setActions or the
\* value getActions returned, between replacements, reads and queries.
NextAlias ==
  \/ \E c \in {Cand_move, Cand_escape} : SetActions(input, c)
  \/ GetActions(input)
  \/ \E kind \in {"delete", "assign", "clear", "flag"},
        n \in {"escape", "moveLeft"} : CallerMutate(kind, n)
  \/ \E name \in {"escape", "moveLeft"} : IsPressedCall(input, name)
  \/ KeyDown(Raw_ArrowLeft, NoMods)
  \/ KeyUp(Raw_ArrowLeft, NoMods)

SpecAlias == Init /\ [][NextAlias]_vars

\* Listeners coming and going on the singleton, around key events of a
\* recognized and an unrecognized key and a replacement of the map.
NextListen ==
  \/ \E type \in EventTypes, h \in Handlers : On(input, type, h)
  \/ \E type \in EventTypes, h \in Handlers : Off(input, type, h)
  \/ \E raw \in {Raw_F3, Raw_unknownkey}, m \in {NoMods, Mod(TRUE, FALSE, FALSE)} :
       KeyDown(raw, m)
  \/ \E raw \in {Raw_F3, Raw_unknownkey} : KeyUp(raw, NoMods)
  \/ SetActions(input, Cand_game)
  \/ Tick(15)

SpecListen == Init /\ [][NextListen]_vars

\* The keys of the keyboard: the Escape key, an arrow key, and two keys the
\* platform names F13 and Soft1, pressed and released while the default map
\* is queried.
NextKeys ==
  \/ \E raw \in {Raw_Escape, Raw_ArrowLeft, Raw_F13, Raw_Soft1},
        m \in {NoMods, Mod(TRUE, FALSE, FALSE)} : KeyDown(raw, m)
  \/ \E raw \in {Raw_Escape, Raw_ArrowLeft, Raw_F13, Raw_Soft1} :
       KeyUp(raw, NoMods)
  \/ \E name \in {"escape", "navigateLeft"} : IsPressedCall(input, name)
  \/ Tick(15)

SpecKeys == Init /\ [][NextKeys]_vars

\* Two instances of the class, the singleton and one built with new Input(),
\* each with listeners and a map of its own, and the keyboard.
NextInst ==
  \/ \E i \in Insts, type \in {"inputPressed", "actionsUpdated"} :
       On(i, type, "query")
  \/ \E i \in Insts : SetActions(i, Cand_move)
  \/ \E i \in Insts : IsPressedCall(i, "navigateLeft")
  \/ KeyDown(Raw_ArrowLeft, NoMods)
  \/ KeyUp(Raw_ArrowLeft, NoMods)

SpecInst == Init /\ [][NextInst]_vars

----------------------------------------------------------------------------
(* Properties.                                                             *)

\* The flag a chord asks for: an absent flag asks for the modifier not to
\* be held.
Wants(chord, flag) == IF flag \in DOMAIN chord THEN chord[flag] ELSE FALSE

\* A chord matches the pool: its key has an entry that is pressed and whose
\* three flags each equal the flag the chord asks for.
Matches(chord, p) ==
  /\ chord.key \in DOMAIN p
  /\ p[chord.key].pressed = TRUE
  /\ p[chord.key].control = Wants(chord, "control")
  /\ p[chord.key].shift = Wants(chord, "shift")
  /\ p[chord.key].alt = Wants(chord, "alt")

\* C1: for a name of the action map, isPressed(name) returns true if and
\* only if some chord of the definition matches the pool exactly (an absent
\* flag meaning the modifier is not held; no entry, no match; an empty
\* definition, false).  In particular {key: "a"} does not match while
\* Control is recorded for "a", and {key: "a", control: true} does not match
\* while it is not.
C1_IsPressedExactMatch ==
  /\ (last.op = "isPressed" /\ last.name \in DOMAIN Actions(last.inst)) =>
       /\ ~last.threw
       /\ last.value <=>
            \E idx \in 1..Len(Actions(last.inst)[last.name]) :
              Matches(Actions(last.inst)[last.name][idx], pool)
  /\ \A i \in Insts : \A name \in DOMAIN Actions(i) :
       isPressed(Actions(i), pool, name).value <=>
         \E idx \in 1..Len(Actions(i)[name]) : Matches(Actions(i)[name][idx], pool)
  /\ (Key_a \in DOMAIN pool /\ pool[Key_a].control) =>
       ~IsPressedLoop(<<[key |-> Key_a]>>, 1, pool)
  /\ (Key_a \in DOMAIN pool /\ ~pool[Key_a].control) =>
       ~IsPressedLoop(<<[key |-> Key_a, control |-> TRUE]>>, 1, pool)

\* C1 witness: isPressed("fire") has returned false although F3, the key of
\* its chord {f3, control}, is held with Control, because Shift is held too.
C1_Witness ==
  /\ last.op = "isPressed" /\ last.name = "fire" /\ ~last.threw /\ ~last.value
  /\ "fire" \in DOMAIN Actions(input)
  /\ Key_f3 \in DOMAIN pool
  /\ pool[Key_f3].pressed /\ pool[Key_f3].control /\ pool[Key_f3].shift

\* The platform's name of a canonical key.
PlatformName(k) ==
  CASE k = Key_a -> Raw_a
    [] k = Key_f3 -> Raw_F3
    [] k = Key_leftArrow -> Raw_ArrowLeft
    [] k = Key_escape -> Raw_Escape

\* C7: after a key-down whose raw name is the platform name of canonical key
\* k with modifiers m, the pool entry of k has pressed = true and flags m;
\* after a key-up of k it has pressed = false and the three flags false.
C7_PoolFollowsKeyEvents ==
  \A k \in {Key_a, Key_f3, Key_leftArrow} :
    /\ (last.op = "keydown" /\ last.raw = PlatformName(k)) =>
         /\ k \in DOMAIN pool
         /\ pool[k].pressed
         /\ Mod(pool[k].control, pool[k].shift, pool[k].alt) = last.mods
    /\ (last.op = "keyup" /\ last.raw = PlatformName(k)) =>
         /\ k \in DOMAIN pool
         /\ ~pool[k].pressed
         /\ Mod(pool[k].control, pool[k].shift, pool[k].alt) = NoMods

\* The translator as described: a lower-cased name that is one letter, one
\* digit, or f and one or two digits is returned as it is; any other name
\* yields its table entry, or nothing.
IsLetterDigitOrFn(lower) ==
  \/ Len(lower) = 1 /\ (\E i \in 1..26 : LowerCase[i] = lower[1])
  \/ Len(lower) = 1 /\ lower[1] \in Digits
  \/ Len(lower) \in {2, 3} /\ lower[1] = "f"
       /\ \A i \in 2..Len(lower) : lower[i] \in Digits

TranslateAsDescribed(raw) ==
  LET lower == ToLowerCase(raw) IN
  IF IsLetterDigitOrFn(lower) THEN lower
  ELSE IF lower \in DOMAIN mapNavigatorKeyToThis THEN mapNavigatorKeyToThis[lower]
  ELSE undefined

\* C8: the translator lower-cases the raw name and returns it unchanged when
\* it is a single letter, a single digit or f followed by one or two digits,
\* and otherwise the table's entry or nothing: ArrowLeft gives leftArrow,
\* a gives a, F3 gives f3, unknownkey gives nothing.
C8_TranslatorAsDescribed ==
  /\ last.op \in {"keydown", "keyup"} =>
       last.keyName = TranslateAsDescribed(last.raw)
  /\ (last.op \in {"keydown", "keyup"} /\ last.raw = Raw_ArrowLeft) =>
       last.keyName = Key_leftArrow
  /\ (last.op \in {"keydown", "keyup"} /\ last.raw = Raw_a) =>
       last.keyName = Key_a
  /\ (last.op \in {"keydown", "keyup"} /\ last.raw = Raw_F3) =>
       last.keyName = Key_f3
  /\ (last.op \in {"keydown", "keyup"} /\ last.raw = Raw_unknownkey) =>
       last.keyName = undefined

\* C2: given a key-down of raw key "a" with no modifiers at time T and an
\* action x defined as [{key: "a"}], justPressed("x") returns true at T + 5
\* and false at T + 20; in general justPressed(name) is true exactly when
\* some chord of the action matches as for isPressed and the timestamp of
\* its key is greater than the time of the call less 15 ms.
C2_JustPressedWindow ==
  /\ [][(/\ last.op = "keydown" /\ last.raw = Raw_a /\ last.mods = NoMods
         /\ last'.op = "justPressed" /\ last'.name = "x"
         /\ "x" \in DOMAIN Actions(input)
         /\ Actions(input)["x"] = <<[key |-> Key_a]>>)
        => /\ last'.at = last.at + 5 => (~last'.threw /\ last'.value)
           /\ last'.at = last.at + 20 => (~last'.threw /\ ~last'.value)]_vars
  /\ [](last.op = "justPressed" /\ ~last.threw =>
          (last.value <=>
             \E idx \in 1..Len(Actions(last.inst)[last.name]) :
               LET chord == Actions(last.inst)[last.name][idx] IN
               /\ Matches(chord, pool)
               /\ pool[chord.key].pressedTimestamp > last.at - 15))

BuiltinNames ==
  {"escape", "navigateLeft", "navigateRight", "navigateUp", "navigateDown"}

\* C3: after any sequence of setActions calls, candidates redefining
\* built-in names included, the action map holds the five built-in names,
\* so a query of a built-in name never fails with a lookup error.
C3_BuiltinsAlwaysPresent ==
  /\ \A i \in Insts : BuiltinNames \subseteq DOMAIN Actions(i)
  /\ (last.op \in {"isPressed", "justPressed"} /\ last.name \in BuiltinNames) =>
       ~last.threw

\* C3 witness: a built-in name has been queried on a map in which a
\* candidate had redefined it.
C3_Witness ==
  /\ last.op = "isPressed" /\ last.name = "escape" /\ ~last.threw
  /\ Actions(last.inst)["escape"] = <<[key |-> Key_enter]>>

\* The defaults overlaid by a candidate c, name by name.
Overlay(c) ==
  [n \in BuiltinNames \cup DOMAIN c |-> IF n \in DOMAIN c THEN c[n] ELSE builtin[n]]

\* C4: after setActions(c), whatever the map was, the map is the defaults
\* overlaid by c name by name: its names are the built-in names and those
\* of c, a name of c carries c's definition in place of a default, a
\* built-in name not in c carries its default.  setActions({}) gives the
\* five defaults, setActions({escape: [{key: "enter"}]}) changes only
\* escape, and names of an earlier candidate absent from c are gone.
C4_SetActionsOverlaysDefaults ==
  last.op = "setActions" =>
    LET c == Deref(records, arrays, held) IN
    /\ Actions(last.inst) = Overlay(c)
    /\ DOMAIN Actions(last.inst) = BuiltinNames \cup DOMAIN c
    /\ \A n \in DOMAIN c : Actions(last.inst)[n] = c[n]
    /\ \A n \in BuiltinNames \ DOMAIN c : Actions(last.inst)[n] = builtin[n]
    /\ c = Cand_empty => Actions(last.inst) = builtin
    /\ c = Cand_escape =>
         Actions(last.inst) = [builtin EXCEPT !["escape"] = <<[key |-> Key_enter]>>]

\* C4 witness: setActions({escape: [{key: "enter"}]}) has just replaced a
\* map on the singleton.
C4_Witness ==
  /\ last.op = "setActions" /\ last.inst = input
  /\ Deref(records, arrays, held) = Cand_escape
  /\ Actions(input)["escape"] = <<[key |-> Key_enter]>>
  /\ Actions(input)["navigateLeft"] = <<[key |-> Key_leftArrow]>>

\* C5: isPressed(name) and justPressed(name) fail if and only if name is not
\* in the current action map, and a failing call leaves the action maps and
\* the pool as they were.
C5_LookupErrorIffAbsent ==
  /\ [](last.op \in {"isPressed", "justPressed"} =>
          (last.threw <=> last.name \notin DOMAIN Actions(last.inst)))
  /\ [][(last'.op \in {"isPressed", "justPressed"} /\ last'.threw) =>
          (pool' = pool /\ \A i \in Insts : Actions(i)' = Actions(i))]_vars

\* C5 witness: a query of x has failed on a map that no longer holds x,
\* with a key recorded in the pool.
C5_Witness ==
  /\ last.op = "justPressed" /\ last.name = "x" /\ last.threw
  /\ "x" \notin DOMAIN Actions(last.inst)
  /\ "x" \in DOMAIN Actions(IF last.inst = input THEN "other" ELSE input)
  /\ pool # <<>>

\* C6: the action map shares no mutable structure with its callers: a
\* change, at any depth, of a value getActions returned or of a candidate
\* after it was passed to setActions changes neither what getActions
\* returns later nor what isPressed and justPressed return.
C6_NoSharedStructure ==
  [][last'.op = "mutate" =>
       \A i \in Insts :
         /\ Actions(i)' = Actions(i)
         /\ \A n \in DOMAIN Actions(i) :
              /\ isPressed(Actions(i), pool, n)' = isPressed(Actions(i), pool, n)
              /\ justPressed(Actions(i), pool, n, now)'
                   = justPressed(Actions(i), pool, n, now)]_vars

\* C6 witness: the calling code has emptied, in place, the moveLeft array of
\* the candidate it passed to setActions, and the map still holds the two
\* chords.
C6_Witness ==
  /\ last.op = "mutate" /\ last.name = "moveLeft"
  /\ held = Address(CandRegion, MapSlot)
  /\ "moveLeft" \in DOMAIN records[held]
  /\ arrays[records[held]["moveLeft"]] = <<>>
  /\ Actions(input)["moveLeft"] = <<[key |-> Key_a], [key |-> Key_leftArrow]>>

\* C9: a key-down or key-up event whose raw name the translator does not
\* recognize leaves the pool and the action map unchanged, dispatches
\* neither inputPressed nor inputReleased, and never suppresses the raw
\* event's default behaviour.
C9_UnrecognizedKeyIgnored ==
  /\ []((last.op \in {"keydown", "keyup"} /\ last.keyName = undefined) =>
          (last.notes = <<>> /\ ~last.prevented))
  /\ [][(last'.op \in {"keydown", "keyup"} /\ last'.keyName = undefined) =>
          (pool' = pool /\ \A i \in Insts : Actions(i)' = Actions(i))]_vars

\* C9 witness: a key-down of "unknownkey" has been handled while a listener
\* that prevents the default is registered and the pool holds a key.
C9_Witness ==
  /\ last.op = "keydown" /\ last.raw = Raw_unknownkey
  /\ "cancel" \in listeners[input]["inputPressed"]
  /\ pool # <<>>

\* C10: a raw event of a recognized key produces exactly one notification,
\* inputPressed for key-down and inputReleased for key-up, dispatched after
\* the pool entry is fully updated: what a listener reads from inside the
\* handler is the entry as the event leaves it (pressed with the event's
\* modifiers, or released), and isPressed and justPressed called there
\* return what they return after the event.
C10_NotifiedAfterUpdate ==
  (last.op \in {"keydown", "keyup"} /\ last.keyName # undefined) =>
    /\ Len(last.notes) = 1
    /\ LET note == last.notes[1] IN
       /\ note.type = (IF last.op = "keydown" THEN "inputPressed"
                       ELSE "inputReleased")
       /\ note.target = input
       /\ note.to = listeners[input][note.type]
       /\ last.keyName \in DOMAIN note.sawPool
       /\ note.sawPool[last.keyName] = pool[last.keyName]
       /\ last.op = "keydown" =>
            /\ note.sawPool[last.keyName].pressed
            /\ note.sawPool[last.keyName].pressedTimestamp = last.at
            /\ Mod(note.sawPool[last.keyName].control,
                   note.sawPool[last.keyName].shift,
                   note.sawPool[last.keyName].alt) = last.mods
       /\ last.op = "keyup" =>
            /\ ~note.sawPool[last.keyName].pressed
            /\ Mod(note.sawPool[last.keyName].control,
                   note.sawPool[last.keyName].shift,
                   note.sawPool[last.keyName].alt) = NoMods
       /\ \A n \in DOMAIN Actions(input) :
            /\ isPressed(note.sawActions, note.sawPool, n)
                 = isPressed(Actions(input), pool, n)
            /\ justPressed(note.sawActions, note.sawPool, n, note.sawNow)
                 = justPressed(Actions(input), pool, n, last.at)

\* C10 witness: the README's listener has run for a key-down of F3 with
\* Control and has read isPressed("fire") as true.
C10_Witness ==
  /\ last.op = "keydown" /\ last.keyName = Key_f3
  /\ Len(last.notes) = 1
  /\ "query" \in last.notes[1].to
  /\ "fire" \in DOMAIN last.notes[1].sawActions
  /\ isPressed(last.notes[1].sawActions, last.notes[1].sawPool, "fire").value

\* C11: every setActions dispatches exactly one actionsUpdated notification,
\* on the instance it was called on, after the map has been replaced by the
\* complete merge: what a listener reads from inside the handler is the
\* map as the call leaves it, which holds every built-in name and the whole
\* candidate.
C11_ActionsUpdatedAfterSwap ==
  last.op = "setActions" =>
    /\ Len(last.notes) = 1
    /\ LET note == last.notes[1] IN
       /\ note.type = "actionsUpdated"
       /\ note.target = last.inst
       /\ note.to = listeners[last.inst]["actionsUpdated"]
       /\ note.sawActions = Actions(last.inst)
       /\ note.sawActions = Overlay(Deref(records, arrays, held))
       /\ BuiltinNames \subseteq DOMAIN note.sawActions
       /\ \A n \in DOMAIN note.sawActions :
            isPressed(note.sawActions, note.sawPool, n)
              = isPressed(Actions(last.inst), pool, n)

\* C11 witness: a listener of actionsUpdated has run for setActions of the
\* game map and has read the fire action from the map.
C11_Witness ==
  /\ last.op = "setActions"
  /\ Len(last.notes) = 1
  /\ "query" \in last.notes[1].to
  /\ "fire" \in DOMAIN last.notes[1].sawActions
  /\ Key_f3 \in DOMAIN pool /\ pool[Key_f3].pressed

\* C12: for a recognized key-down or key-up event, the raw event's default
\* behaviour is suppressed if and only if a listener of the inputPressed or
\* inputReleased notification it produced called preventDefault; the pool
\* entry is written either way.
C12_PreventDefaultThreaded ==
  (last.op \in {"keydown", "keyup"} /\ last.keyName # undefined) =>
    /\ Len(last.notes) = 1
    /\ last.prevented <=> "cancel" \in last.notes[1].to
    /\ last.prevented <=>
         "cancel" \in listeners[input][IF last.op = "keydown" THEN "inputPressed"
                                       ELSE "inputReleased"]
    /\ last.keyName \in DOMAIN pool
    /\ pool[last.keyName].pressed = (last.op = "keydown")

\* C12 witness: a listener has prevented the default of a key-up of F3, and
\* the entry of F3 is released.
C12_Witness ==
  /\ last.op = "keyup" /\ last.keyName = Key_f3
  /\ last.prevented
  /\ ~pool[Key_f3].pressed

\* C13: only the key-down and key-up handlers change the pool: isPressed,
\* justPressed, getActions and setActions leave every entry as it was, and
\* isPressed, justPressed and getActions leave the action maps as they
\* were, whether they return or fail.
C13_QueriesArePureReads ==
  [][/\ last'.op \in {"isPressed", "justPressed", "getActions", "setActions"}
          => pool' = pool
     /\ pool' # pool => last'.op \in {"keydown", "keyup"}
     /\ last'.op \in {"isPressed", "justPressed", "getActions"}
          => \A i \in Insts : Actions(i)' = Actions(i)]_vars

\* C13 witness: isPressed has returned for an action none of whose keys has
\* an entry, while another key is held.
C13_Witness ==
  /\ last.op = "isPressed" /\ last.name = "fire" /\ ~last.threw
  /\ Key_f3 \notin DOMAIN pool
  /\ Key_leftArrow \in DOMAIN pool /\ pool[Key_leftArrow].pressed

\* A chord of the action asks for key k and for the modifiers m.
BoundTo(action, k, m) ==
  \E idx \in 1..Len(action) :
    /\ action[idx].key = k
    /\ Mod(Wants(action[idx], "control"), Wants(action[idx], "shift"),
           Wants(action[idx], "alt")) = m

\* C14: a key-down of key k that follows a key-down of k with no key-up
\* between (key repeat) stamps k's entry with the time of the repeat, so
\* justPressed for an action bound to k is true again within 15 ms of each
\* repeat, and isPressed for it is true for as long as the key is held.
C14_RepeatRestamps ==
  [][\A k \in {Key_a, Key_f3} :
       /\ (/\ last.op = "keydown" /\ last.raw = PlatformName(k)
           /\ last'.op = "keydown" /\ last'.raw = PlatformName(k)
           /\ now' = now)
          => /\ k \in DOMAIN pool'
             /\ pool'[k].pressed
             /\ pool'[k].pressedTimestamp = now'
       /\ (/\ last.op = "keydown" /\ last.raw = PlatformName(k)
           /\ last'.op \in {"justPressed", "isPressed"}
           /\ last'.name \in DOMAIN Actions(last'.inst)
           /\ BoundTo(Actions(last'.inst)[last'.name], k, last.mods))
          => /\ last'.op = "isPressed" => last'.value
             /\ (last'.op = "justPressed" /\ last'.at < last.at + 15)
                  => last'.value]_vars

\* The statement of C14 for the function key alone.
C14_RepeatRestampsF3 ==
  /\ [][(/\ last.op = "keydown" /\ last.raw = Raw_F3
         /\ last'.op = "keydown" /\ last'.raw = Raw_F3
         /\ now' = now)
        => /\ Key_f3 \in DOMAIN pool'
           /\ pool'[Key_f3].pressed
           /\ pool'[Key_f3].pressedTimestamp = now']_vars
  /\ [][(/\ last.op = "keydown" /\ last.raw = Raw_F3
         /\ last'.op \in {"justPressed", "isPressed"}
         /\ last'.name \in DOMAIN Actions(last'.inst)
         /\ BoundTo(Actions(last'.inst)[last'.name], Key_f3, last.mods))
        => /\ last'.op = "isPressed" => last'.value
           /\ (last'.op = "justPressed" /\ last'.at < last.at + 15)
                => last'.value]_vars

\* type InputActionKeyName
InputActionKeyName ==
  {Key_leftArrow, Key_rightArrow, Key_upArrow, Key_downArrow,
   <<"s","p","a","c","e","b","a","r">>, Key_enter,
   <<"b","a","c","k","s","p","a","c","e">>,
   <<"m","i","n","u","s">>, <<"p","l","u","s">>, <<"t","a","b">>}
  \cup {<<"f", d>> : d \in Digits \ {"0"}}
  \cup {<<"f", "1", d>> : d \in {"0", "1", "2"}}
  \cup {<<d>> : d \in Digits}
  \cup {<<LowerCase[i]>> : i \in 1..26}

\* The key names Input.keyNameDisplay has a case for.
keyNameDisplayCases ==
  {Key_escape, Key_leftArrow, Key_rightArrow, Key_upArrow, Key_downArrow,
   <<"s","p","a","c","e","b","a","r">>, Key_enter,
   <<"b","a","c","k","s","p","a","c","e">>,
   <<"m","i","n","u","s">>, <<"p","l","u","s">>, <<"t","a","b">>,
   <<"a","s","s","i","g","n">>, <<"c","o","m","m","a">>, <<"d","o","t">>,
   <<"s","e","m","i","c","o","l","o","n">>}

\* The closed set of key identifiers: the names of the type and the names
\* the class uses beside them (escape and the punctuation keys).
CanonicalKey == InputActionKeyName \cup keyNameDisplayCases

\* C15: every key of the pool is a member of the closed set of key
\* identifiers: whatever the raw name (F13 and names holding an f followed
\* by a digit included), the translator yields a member of the set or
\* nothing, and the pool never has more entries than the set has members.
C15_PoolKeysCanonical ==
  /\ DOMAIN pool \subseteq CanonicalKey
  /\ last.op \in {"keydown", "keyup"} =>
       last.keyName \in CanonicalKey \cup {undefined}
  /\ Cardinality(DOMAIN pool) <= Cardinality(CanonicalKey)

\* The raw name of the key each built-in action is bound to.
BuiltinRaw ==
  [escape |-> Raw_Escape, navigateLeft |-> Raw_ArrowLeft]

\* C18: with the default map, each built-in action is triggered by its key:
\* after a key-down of Escape or of an arrow key with no modifier held,
\* isPressed of the built-in action bound to it is true, and stays true
\* until the key-up of that key.
C18_BuiltinsTriggerable ==
  /\ [](\A n \in DOMAIN BuiltinRaw :
          (/\ last.op = "keydown" /\ last.raw = BuiltinRaw[n]
           /\ last.mods = NoMods
           /\ Actions(input) = builtin)
          => isPressed(Actions(input), pool, n).value)
  /\ [][\A n \in DOMAIN BuiltinRaw :
          (/\ isPressed(Actions(input), pool, n).value
           /\ ~(last'.op \in {"keydown", "keyup"} /\ last'.raw = BuiltinRaw[n]))
          => isPressed(Actions(input), pool, n).value']_vars

\* The statement of C18 for the arrow key alone.
C18_ArrowTriggers ==
  (/\ last.op = "keydown" /\ last.raw = Raw_ArrowLeft /\ last.mods = NoMods
   /\ Actions(input) = builtin)
  => isPressed(Actions(input), pool, "navigateLeft").value

\* C16: the pool holds an entry for key k exactly when k has received a
\* key-down earlier: the entry is created by the first key-down of k and by
\* nothing else, it is never removed, and a key-up changes only pressed and
\* the three flags of the entry and leaves its timestamp as it was.
C16_EntryIffKeyDown ==
  /\ [](\A k \in {Key_a, Key_f3, Key_leftArrow} :
          (last.op = "keydown" /\ last.raw = PlatformName(k))
            => k \in DOMAIN pool)
  /\ [][/\ \A k \in DOMAIN pool' \ DOMAIN pool :
             last'.op = "keydown" /\ last'.keyName = k
        /\ DOMAIN pool \subseteq DOMAIN pool'
        /\ \A k \in DOMAIN pool :
             (last'.op = "keyup" /\ last'.keyName = k)
               => pool'[k] = [pool[k] EXCEPT !.pressed = FALSE,
                                             !.control = FALSE,
                                             !.shift = FALSE,
                                             !.alt = FALSE]]_vars

\* C16 as the listeners have it: the pool holds an entry for k exactly when
\* a key-down or a key-up whose raw name translates to k has been handled:
\* the first such event, a key-up included, creates the entry (with
\* timestamp 0 when it is a key-up), no entry is ever removed, and a key-up
\* changes only pressed and the three flags of an entry and leaves its
\* timestamp as it was.
C16_EntryIffHandled ==
  /\ []((last.op \in {"keydown", "keyup"} /\ last.keyName # undefined)
          => last.keyName \in DOMAIN pool)
  /\ [][/\ \A k \in DOMAIN pool' \ DOMAIN pool :
             /\ last'.op \in {"keydown", "keyup"}
             /\ last'.keyName = k
             /\ last'.op = "keyup" => pool'[k] = FreshState
        /\ DOMAIN pool \subseteq DOMAIN pool'
        /\ \A k \in DOMAIN pool :
             (last'.op = "keyup" /\ last'.keyName = k)
               => pool'[k] = [pool[k] EXCEPT !.pressed = FALSE,
                                             !.control = FALSE,
                                             !.shift = FALSE,
                                             !.alt = FALSE]]_vars

\* C16 witness: a key-up of F3 has left the entry released with the
\* timestamp of the key-down before it.
C16_Witness ==
  /\ last.op = "keyup" /\ last.keyName = Key_f3
  /\ ~pool[Key_f3].pressed
  /\ pool[Key_f3].pressedTimestamp = 15

\* C17: the pool and the action map are state of one instance, so two
\* instances do not interfere: a key event, which reaches the singleton,
\* changes nothing that isPressed reads through the other instance, a
\* setActions on one instance leaves the map of the other as it was, and
\* actionsUpdated is delivered to the listeners of the instance whose map
\* was replaced.
C17_InstancesIsolated ==
  /\ [][/\ last'.op \in {"keydown", "keyup"} =>
             \A n \in DOMAIN Actions("other") :
               isPressed(Actions("other"), pool, n)'
                 = isPressed(Actions("other"), pool, n)
        /\ last'.op = "setActions" =>
             \A j \in Insts \ {last'.inst} : Actions(j)' = Actions(j)]_vars
  /\ [](last.op = "setActions" =>
          /\ last.notes[1].target = last.inst
          /\ last.notes[1].to = listeners[last.inst]["actionsUpdated"])

\* C17 as the class has it: the action map is state of one instance and
\* the pool is shared by all instances.  A setActions on one instance
\* leaves the map of every other instance and the pool as they were and
\* notifies the listeners of that instance alone; a key event leaves every
\* map as it was, writes the one pool that every instance reads, so that
\* instances whose maps define a name alike answer isPressed alike, and
\* notifies the listeners of the singleton alone.
C17_MapPerInstancePoolShared ==
  /\ [][/\ last'.op = "setActions" =>
             /\ \A j \in Insts \ {last'.inst} : Actions(j)' = Actions(j)
             /\ pool' = pool
        /\ last'.op \in {"keydown", "keyup"} =>
             \A i \in Insts : Actions(i)' = Actions(i)]_vars
  /\ [](last.op = "setActions" =>
          /\ Len(last.notes) = 1
          /\ last.notes[1].target = last.inst
          /\ last.notes[1].to = listeners[last.inst]["actionsUpdated"])
  /\ []((last.op \in {"keydown", "keyup"} /\ last.keyName # undefined) =>
          /\ Len(last.notes) = 1
          /\ last.notes[1].target = input
          /\ last.notes[1].to =
               listeners[input][IF last.op = "keydown" THEN "inputPressed"
                                ELSE "inputReleased"]
          /\ \A i \in Insts :
               Actions(i)["navigateLeft"] = <<[key |-> last.keyName]>>
                 => isPressed(Actions(i), pool, "navigateLeft").value
                      = (last.op = "keydown"))

\* C17 witness: setActions on the second instance has notified its listener
\* while the singleton keeps the default map and the arrow key is held.
C17_Witness ==
  /\ last.op = "setActions" /\ last.inst = "other"
  /\ "query" \in last.notes[1].to
  /\ "query" \notin listeners[input]["actionsUpdated"]
  /\ "moveLeft" \in DOMAIN Actions("other")
  /\ Actions(input) = builtin
  /\ Key_leftArrow \in DOMAIN pool /\ pool[Key_leftArrow].pressed

\* C19: a recognized key-down or key-up of key k changes the entry of k and
\* nothing else: every other entry and every action map stay as they were.
\* So the flags recorded for a held key are those of its own latest
\* key-down, and releasing one of two held keys that are alternatives of an
\* action leaves the action pressed.
C19_KeyEventTouchesOneEntry ==
  /\ [][(last'.op \in {"keydown", "keyup"} /\ last'.keyName # undefined) =>
          /\ DOMAIN pool' = DOMAIN pool \cup {last'.keyName}
          /\ \A k \in DOMAIN pool \ {last'.keyName} : pool'[k] = pool[k]
          /\ \A i \in Insts : Actions(i)' = Actions(i)
          /\ \A n \in DOMAIN Actions(input) :
               (/\ last'.op = "keyup"
                /\ \E idx \in 1..Len(Actions(input)[n]) :
                     /\ Actions(input)[n][idx].key # last'.keyName
                     /\ Matches(Actions(input)[n][idx], pool))
               => isPressed(Actions(input), pool, n).value']_vars
  /\ []((last.op = "keydown" /\ last.keyName # undefined) =>
          Mod(pool[last.keyName].control, pool[last.keyName].shift,
              pool[last.keyName].alt) = last.mods)

\* C19 witness: F3 has been released while the left arrow is held with
\* Control and Shift, the flags of its own key-down, and fire, which either
\* key triggers, is pressed.
C19_Witness ==
  /\ last.op = "keyup" /\ last.keyName = Key_f3
  /\ Key_leftArrow \in DOMAIN pool
  /\ pool[Key_leftArrow] = [pressed |-> TRUE, pressedTimestamp |-> 0,
                            control |-> TRUE, shift |-> TRUE, alt |-> FALSE]
  /\ pool[Key_f3].pressedTimestamp = 15
  /\ "fire" \in DOMAIN Actions(input)
  /\ isPressed(Actions(input), pool, "fire").value

\* C20: at every instant and for every action name, justPressed true
\* implies isPressed true; so justPressed is false for an action all of
\* whose keys are released, however recent their last key-down.
C20_JustPressedImpliesPressed ==
  /\ \A i \in Insts : \A n \in DOMAIN Actions(i) :
       /\ justPressed(Actions(i), pool, n, now).value
            => isPressed(Actions(i), pool, n).value
       /\ (\A idx \in 1..Len(Actions(i)[n]) :
             ~(/\ Actions(i)[n][idx].key \in DOMAIN pool
               /\ pool[Actions(i)[n][idx].key].pressed))
            => ~justPressed(Actions(i), pool, n, now).value
  /\ (last.op = "justPressed" /\ last.value) =>
       isPressed(Actions(last.inst), pool, last.name).value

\* C20 witness: justPressed has returned false for navigateLeft, bound to
\* F3, which was pressed less than 15 ms before the call and is released.
C20_Witness ==
  /\ last.op = "justPressed" /\ last.name = "navigateLeft"
  /\ ~last.threw /\ ~last.value
  /\ Actions(input)["navigateLeft"] = <<[key |-> Key_f3, control |-> FALSE]>>
  /\ Key_f3 \in DOMAIN pool
  /\ ~pool[Key_f3].pressed
  /\ pool[Key_f3].pressedTimestamp > last.at - 15
  /\ pool[Key_f3].pressedTimestamp > 0

====
